---- MODULE Spec2Model ----
(***************************************************************************)
(* Model of src/frontend/src/TaskAnalyzer.tsx: the TaskAnalyzer component. *)
(*                                                                         *)
(* Numbers are fixed point, so that the arithmetic of the source is exact: *)
(*   - time is counted in ticks, TicksPerDay ticks to the day;             *)
(*   - estimated_hours is counted in half hours (the form's step is 0.5);  *)
(*   - a raw importance text is counted in tenths (so that "7.9" can be    *)
(*     written and parseInt has something to cut off);                     *)
(*   - the four component scores are counted in hundredths;                *)
(*   - finalScore is counted in ten-thousandths (component x weight, the   *)
(*     weights being counted in hundredths);                               *)
(*   - every value the source rounds with Math.round(v * 10) / 10, and     *)
(*     every field of the returned Priority, is counted in tenths.         *)
(* NaN is a reserved value; the operators that read a number test for it   *)
(* where JavaScript's comparison or || would behave differently.           *)
(*                                                                         *)
(* The source computes in IEEE doubles. The values SpecEngine draws        *)
(* (importance 5 and 10, estimates of 1, 2 and 12 hours, due dates on the  *)
(* tick) are such that the doubles of lines 104-124 round to the same      *)
(* score and fall on the same side of 4 and 7 as the exact sums do. Under  *)
(* Spec and SpecUrgency a score may sit on a rounding tie, where the       *)
(* double can fall one tenth lower; nothing stated under them reads a      *)
(* score's value. The urgency of a due date on the tick is a multiple of   *)
(* a quarter, which a double holds exactly.                                *)
(***************************************************************************)
EXTENDS Integers, Sequences, FiniteSets, TLC

VARIABLES
    tasks,          \* useState<Task[]>            (line 52)
    analyzedTasks,  \* useState<AnalyzedTask[]>    (line 53)
    sortStrategy,   \* useState<Strategy>          (line 54)
    loading,        \* useState(false)             (line 57)
    timers,         \* pending setTimeout callbacks, each with the render's
                    \* tasks and sortStrategy it closes over (lines 195-204)
    now,            \* the clock read by new Date() and Date.now(), in ticks
    alert           \* the message of the alert() raised by the last step

vars == <<tasks, analyzedTasks, sortStrategy, loading, timers, now, alert>>

-----------------------------------------------------------------------------
(* Bounds of the model *)

MaxNow == 1
MaxTasks == 2
MaxPending == 1
MaxContext == 3
MaxOverdueDays == 10
MaxDueDays == 15

-----------------------------------------------------------------------------
(* Numbers *)

TicksPerDay == 2

NaN == -1000000

Min(a, b) == IF a <= b THEN a ELSE b

Abs(a) == IF a < 0 THEN 0 - a ELSE a

\* Math.round(v * 10) / 10 of a value counted in 1/unit: the result in tenths.
\* Math.round rounds a half up; no value rounded here is negative.
Round1(v, unit) == (v * 20 + unit) \div (2 * unit)

\* parseFloat of a raw value: the number of a numeric value or text (in half
\* hours), NaN of anything else (undefined, a non-numeric text).
ParseFloat(raw) == IF raw.k = "num" THEN raw.v ELSE NaN

\* parseInt of a raw value counted in tenths: the integer part, cut toward
\* zero; NaN of anything else.
ParseInt(raw) ==
    IF raw.k # "num" THEN NaN
    ELSE IF raw.v >= 0 THEN raw.v \div 10 ELSE 0 - ((0 - raw.v) \div 10)

\* v || d for a number v: 0 and NaN are falsy.
OrElse(v, d) == IF v = 0 \/ v = NaN THEN d ELSE v

\* new Date(due_date).getTime(), in ticks: a date-only text is that day's
\* midnight, any other text an Invalid Date (NaN).
DateGetTime(due_date) ==
    IF due_date.k = "date" THEN due_date.v * TicksPerDay ELSE NaN

\* new Date().toISOString().split('T')[0]: the date of the clock reading.
Today(t) == [k |-> "date", v |-> t \div TicksPerDay]

\* `task_${Date.now()}` and `task_${Date.now()}_${idx}` (idx from 0).
TaskId(t) == "task_" \o ToString(t)

TaskIdIdx(t, idx) == "task_" \o ToString(t) \o "_" \o ToString(idx)

-----------------------------------------------------------------------------
(* calculatePriority (lines 68-134) *)

Strategies == {"smart_balance", "fastest_wins", "high_impact", "deadline_driven"}

\* UrgencyScore with the upper end of each bucket left out of it.
UrgencyScoreExclusive(task, t) ==
    LET dueTime == DateGetTime(task.due_date)
        d == dueTime - t
    IN  IF dueTime = NaN THEN 100
        ELSE IF d < 0 THEN 1000 + (Abs(d) * 50) \div TicksPerDay
        ELSE IF d < 1 * TicksPerDay THEN 900
        ELSE IF d < 3 * TicksPerDay THEN 700
        ELSE IF d < 7 * TicksPerDay THEN 500
        ELSE IF d < 14 * TicksPerDay THEN 300
        ELSE 100

\* Lines 69-86. t is the reading of new Date(). With dueTime NaN every
\* comparison is false and the last branch is taken.
UrgencyScore(task, t) ==
    LET dueTime == DateGetTime(task.due_date)
        d == dueTime - t    \* daysUntilDue, in ticks
    IN  IF dueTime = NaN THEN 100
        ELSE IF d < 0 THEN 1000 + (Abs(d) * 50) \div TicksPerDay
        ELSE IF d <= 1 * TicksPerDay THEN 900
        ELSE IF d <= 3 * TicksPerDay THEN 700
        ELSE IF d <= 7 * TicksPerDay THEN 500
        ELSE IF d <= 14 * TicksPerDay THEN 300
        ELSE 100

\* Line 88.
ImportanceScore(task) == OrElse(task.importance, 5) * 100

\* Line 89. estimated_hours is in half hours: 1 hour is 2, 10 hours are 20.
EffortScore(task) == 1000 - Min(OrElse(task.estimated_hours, 2), 20) * 50

\* task.dependencies.includes(id)
Includes(deps, id) == \E k \in DOMAIN deps : deps[k] = id

\* Lines 91-97: allTasks.filter(t => task.dependencies.includes(t.id)).length * 2
DependencyScore(task, allTasks) ==
    IF Len(task.dependencies) > 0
    THEN Cardinality({j \in DOMAIN allTasks :
                        Includes(task.dependencies, allTasks[j].id)}) * 2 * 100
    ELSE 0

\* FinalScore with the dependency component weighted under every strategy.
FinalScoreUniform(strategy, urgencyScore, importanceScore, effortScore, dependencyScore) ==
    CASE strategy = "fastest_wins" ->
            effortScore * 60 + urgencyScore * 20 + importanceScore * 20
            + dependencyScore * 15
      [] strategy = "high_impact" ->
            importanceScore * 70 + urgencyScore * 20 + effortScore * 10
            + dependencyScore * 15
      [] strategy = "deadline_driven" ->
            urgencyScore * 70 + importanceScore * 20 + effortScore * 10
            + dependencyScore * 15
      [] OTHER ->
            urgencyScore * 35 + importanceScore * 35
            + effortScore * 15 + dependencyScore * 15

\* Lines 102-119: the switch on the strategy. Components in hundredths,
\* weights in hundredths, the result in ten-thousandths.
FinalScore(strategy, urgencyScore, importanceScore, effortScore, dependencyScore) ==
    CASE strategy = "fastest_wins" ->
            effortScore * 60 + urgencyScore * 20 + importanceScore * 20
      [] strategy = "high_impact" ->
            importanceScore * 70 + urgencyScore * 20 + effortScore * 10
      [] strategy = "deadline_driven" ->
            urgencyScore * 70 + importanceScore * 20 + effortScore * 10
      [] OTHER ->
            urgencyScore * 35 + importanceScore * 35
            + effortScore * 15 + dependencyScore * 15

Explanation(strategy) ==
    CASE strategy = "fastest_wins" -> "Quick wins prioritized"
      [] strategy = "high_impact" -> "High importance focus"
      [] strategy = "deadline_driven" -> "Deadline focused"
      [] OTHER -> "Balanced priority"

\* Line 121: the level is decided on finalScore, before it is rounded.
PriorityLevel(finalScore) ==
    IF finalScore >= 70000 THEN "high"
    ELSE IF finalScore >= 40000 THEN "medium"
    ELSE "low"

\* Lines 68-134; t is the clock reading of line 69. Every field of the
\* result is in tenths.
calculatePriority(task, allTasks, strategy, t) ==
    LET urgencyScore == UrgencyScore(task, t)
        importanceScore == ImportanceScore(task)
        effortScore == EffortScore(task)
        dependencyScore == DependencyScore(task, allTasks)
        finalScore == FinalScore(strategy, urgencyScore, importanceScore,
                                 effortScore, dependencyScore)
    IN  [score |-> Round1(finalScore, 10000),
         level |-> PriorityLevel(finalScore),
         explanation |-> Explanation(strategy),
         breakdown |-> [urgency |-> Round1(urgencyScore, 100),
                        importance |-> importanceScore \div 10,
                        effort |-> Round1(effortScore, 100),
                        dependencies |-> dependencyScore \div 10]]

-----------------------------------------------------------------------------
(* analyzeTasks (lines 188-205) *)

NoAlert == "none"

RequiredFieldsMsg == "Please fill in all required fields"

InvalidJsonMsg == "Invalid JSON format. Please check your input."

AddTasksFirstMsg == "Please add some tasks first"

ImportedMsg(n) == ToString(n) \o " task(s) imported successfully"

\* { ...task, priority } (lines 196-199)
AnalyzedTask(task, priority) ==
    [id |-> task.id, title |-> task.title, due_date |-> task.due_date,
     estimated_hours |-> task.estimated_hours, importance |-> task.importance,
     dependencies |-> task.dependencies, priority |-> priority]

\* The Task an AnalyzedTask extends (lines 37-39).
TaskOf(a) ==
    [id |-> a.id, title |-> a.title, due_date |-> a.due_date,
     estimated_hours |-> a.estimated_hours, importance |-> a.importance,
     dependencies |-> a.dependencies]

\* The comparator of line 201: negative when a is to come before b.
CompareScore(a, b) == b.priority.score - a.priority.score

\* InsertSorted as an unstable sort would do it: x goes before its equals.
RECURSIVE InsertBeforeEqual(_, _)
InsertBeforeEqual(sorted, x) ==
    IF sorted = <<>> THEN <<x>>
    ELSE IF CompareScore(x, Head(sorted)) <= 0 THEN <<x>> \o sorted
    ELSE <<Head(sorted)>> \o InsertBeforeEqual(Tail(sorted), x)

\* One step of a stable sort: x goes behind every element it does not
\* strictly precede.
RECURSIVE InsertSorted(_, _)
InsertSorted(sorted, x) ==
    IF sorted = <<>> THEN <<x>>
    ELSE IF CompareScore(x, Head(sorted)) < 0 THEN <<x>> \o sorted
    ELSE <<Head(sorted)>> \o InsertSorted(Tail(sorted), x)

\* analyzed.sort((a, b) => b.priority.score - a.priority.score), line 201:
\* Array.prototype.sort is stable.
RECURSIVE SortByScore(_)
SortByScore(seq) ==
    IF seq = <<>> THEN <<>>
    ELSE InsertSorted(SortByScore(SubSeq(seq, 1, Len(seq) - 1)), seq[Len(seq)])

\* The readings of new Date() (line 69) in the n calls of one tasks.map: the
\* clock does not go back, and may pass one tick while the callback runs.
ClockReadings(n, t) ==
    {[i \in 1..n |-> IF i <= k THEN t ELSE t + 1] :
        k \in IF t < MaxNow THEN 0..n ELSE {n}}

\* Lines 196-201: what the callback computes from the tasks and the strategy
\* it closes over, task i scored at the reading clk[i].
Analyze(closedTasks, strategy, clk) ==
    SortByScore([i \in DOMAIN closedTasks |->
        AnalyzedTask(closedTasks[i],
            calculatePriority(closedTasks[i], closedTasks, strategy, clk[i]))])

\* analyzedTasks.slice(0, 3), line 452: the top-3 digest.
Top3(analyzed) == SubSeq(analyzed, 1, Min(3, Len(analyzed)))

\* AnalyzeTasks without the check of lines 189-192.
AnalyzeTasksUnguarded ==
    /\ Len(timers) < MaxPending
    /\ loading' = TRUE
    /\ timers' = Append(timers, [tasks |-> tasks, sortStrategy |-> sortStrategy])
    /\ alert' = NoAlert
    /\ UNCHANGED <<tasks, analyzedTasks, sortStrategy, now>>

\* Lines 188-205, up to the setTimeout call. The handler does not look at
\* loading; the Analyze button's disabled attribute (line 431) is not part
\* of it.
AnalyzeTasks ==
    IF Len(tasks) = 0
    THEN /\ alert' = AddTasksFirstMsg
         /\ UNCHANGED <<tasks, analyzedTasks, sortStrategy, loading, timers, now>>
    ELSE /\ Len(timers) < MaxPending
         /\ loading' = TRUE
         /\ timers' = Append(timers, [tasks |-> tasks, sortStrategy |-> sortStrategy])
         /\ alert' = NoAlert
         /\ UNCHANGED <<tasks, analyzedTasks, sortStrategy, now>>

\* Lines 195-204: the callback of setTimeout runs. Timers of equal delay run
\* in the order they were set.
AnalyzeCallback ==
    /\ timers # <<>>
    /\ \E clk \in ClockReadings(Len(Head(timers).tasks), now) :
          /\ analyzedTasks' = Analyze(Head(timers).tasks, Head(timers).sortStrategy, clk)
          /\ now' = IF clk = <<>> THEN now ELSE clk[Len(clk)]
    /\ loading' = FALSE
    /\ timers' = Tail(timers)
    /\ alert' = NoAlert
    /\ UNCHANGED <<tasks, sortStrategy>>

\* Time passes.
Tick ==
    /\ now < MaxNow
    /\ now' = now + 1
    /\ alert' = NoAlert
    /\ UNCHANGED <<tasks, analyzedTasks, sortStrategy, loading, timers>>

\* The Clear All button (lines 383-390): rendered only while there are tasks.
ClearAll ==
    /\ Len(tasks) > 0
    /\ tasks' = <<>>
    /\ alert' = NoAlert
    /\ UNCHANGED <<analyzedTasks, sortStrategy, loading, timers, now>>

\* A strategy button (lines 403-405).
SetSortStrategy(strategy) ==
    /\ sortStrategy' = strategy
    /\ alert' = NoAlert
    /\ UNCHANGED <<tasks, analyzedTasks, loading, timers, now>>

-----------------------------------------------------------------------------
(* addTask (lines 141-164) *)

\* Raw values: what a form field or a decoded JSON member holds.
Absent == [k |-> "absent"]

Num(v) == [k |-> "num", v |-> v]

Str(s) == [k |-> "str", s |-> s]

Date(day) == [k |-> "date", v |-> day]

\* The text of a form field is empty ('' is falsy, lines 142 and 153).
IsEmptyText(raw) == raw.k = "absent"

\* d.trim() of one comma-separated part: a part is its text and the blanks
\* around it.
Trim(part) == part.text

\* formData.dependencies.split(',').map(d => d.trim()), line 153. The text is
\* held as its comma-separated parts; the empty text is the single empty part.
SplitTrim(parts) == [i \in DOMAIN parts |-> Trim(parts[i])]

IsEmptyParts(parts) == Len(parts) = 1 /\ parts[1] = [pad |-> 0, text |-> ""]

\* Lines 147-154: the Task built from the form at clock reading t.
NewTask(form, t) ==
    [id |-> TaskId(t),
     title |-> form.title,
     due_date |-> form.due_date,
     estimated_hours |-> ParseFloat(form.estimated_hours),
     importance |-> ParseInt(form.importance),
     dependencies |-> IF IsEmptyParts(form.dependencies) THEN <<>>
                      ELSE SplitTrim(form.dependencies)]

\* Line 142.
MissingRequired(form) ==
    \/ form.title = ""
    \/ IsEmptyText(form.due_date)
    \/ IsEmptyText(form.estimated_hours)

AddTask(form) ==
    IF MissingRequired(form)
    THEN /\ alert' = RequiredFieldsMsg
         /\ UNCHANGED <<tasks, analyzedTasks, sortStrategy, loading, timers, now>>
    ELSE /\ Len(tasks) < MaxTasks
         /\ tasks' = Append(tasks, NewTask(form, now))
         /\ alert' = NoAlert
         /\ UNCHANGED <<analyzedTasks, sortStrategy, loading, timers, now>>

-----------------------------------------------------------------------------
(* handleBulkImport (lines 166-186) *)

\* A payload is a text JSON.parse rejects, or the value it decodes to: null,
\* a primitive, an object, or an array of these.
JsonNull == [t |-> "null"]

JsonPrimitive == [t |-> "prim"]

JsonObject(id, title, due_date, estimated_hours, importance, dependencies) ==
    [t |-> "obj", id |-> id, title |-> title, due_date |-> due_date,
     estimated_hours |-> estimated_hours, importance |-> importance,
     dependencies |-> dependencies]

JsonArray(items) == [t |-> "arr", items |-> items]

InvalidText == [k |-> "invalid"]

Json(value) == [k |-> "json", v |-> value]

\* Line 169: Array.isArray(parsed) ? parsed : [parsed]
TasksArray(parsed) == IF parsed.t = "arr" THEN parsed.items ELSE <<parsed>>

\* task.<name>: a member of an object; undefined on a primitive.
Member(element, name) == IF element.t = "obj" THEN element[name] ELSE Absent

\* v || d for a text member: undefined and '' are falsy.
TextOrElse(raw, d) == IF raw.k = "str" /\ raw.s # "" THEN raw.s ELSE d

Clamp(v) == IF v < 1 THEN 1 ELSE IF v > 10 THEN 10 ELSE v

\* Lines 171-178: one element of the array, idx from 0, at clock reading t.
Validated(element, idx, t) ==
    [id |-> TextOrElse(Member(element, "id"), TaskIdIdx(t, idx)),
     title |-> TextOrElse(Member(element, "title"), "Untitled Task"),
     due_date |-> IF Member(element, "due_date") \in {Absent, Str("")}
                  THEN Today(t)
                  ELSE Member(element, "due_date"),
     estimated_hours |-> OrElse(ParseFloat(Member(element, "estimated_hours")), 2),
     importance |-> Clamp(OrElse(ParseInt(Member(element, "importance")), 5)),
     dependencies |-> IF Member(element, "dependencies").k = "list"
                      THEN Member(element, "dependencies").v ELSE <<>>]

\* What makes the try block throw: JSON.parse on the text (line 168), or
\* reading a member of null in the map (line 172).
Throws(payload) ==
    \/ payload.k = "invalid"
    \/ \E i \in DOMAIN TasksArray(payload.v) : TasksArray(payload.v)[i].t = "null"

ValidatedTasks(payload, t) ==
    [i \in DOMAIN TasksArray(payload.v) |->
        Validated(TasksArray(payload.v)[i], i - 1, t)]

HandleBulkImport(payload) ==
    IF Throws(payload)
    THEN /\ alert' = InvalidJsonMsg
         /\ UNCHANGED <<tasks, analyzedTasks, sortStrategy, loading, timers, now>>
    ELSE /\ Len(tasks) + Len(TasksArray(payload.v)) <= MaxTasks
         /\ tasks' = tasks \o ValidatedTasks(payload, now)
         /\ alert' = ImportedMsg(Len(TasksArray(payload.v)))
         /\ UNCHANGED <<analyzedTasks, sortStrategy, loading, timers, now>>

-----------------------------------------------------------------------------
(* The component: what the user can type, paste and click *)

Form(title, due_date, estimated_hours, importance, dependencies) ==
    [title |-> title, due_date |-> due_date, estimated_hours |-> estimated_hours,
     importance |-> importance, dependencies |-> dependencies]

Part(pad, text) == [pad |-> pad, text |-> text]

\* The forms the user submits: the date input holds a date or nothing, the
\* number input a number (which may be 0: min="0.5" does not stop the
\* click) or nothing, the range input 1..10 (in tenths).
FormInputs ==
    {Form("T", Date(1), Num(4), Num(50), <<Part(0, "")>>),
     Form("T", Date(1), Num(0), Num(90), <<Part(1, "b"), Part(0, "b")>>),
     Form("", Date(1), Num(4), Num(50), <<Part(0, "")>>),
          Form("T", Absent, Num(4), Num(50), <<Part(0, "")>>),
          Form("T", Date(1), Absent, Num(90), <<Part(0, "")>>)}

\* The payloads the user pastes.
Payloads ==
    {InvalidText,
     Json(JsonNull),
     Json(JsonPrimitive),
     Json(JsonArray(<<>>)),
     Json(JsonArray(<<JsonObject(Absent, Str("X"), Date(20), Absent, Absent, Absent),
                      JsonNull>>)),
     Json(JsonArray(<<JsonObject(Absent, Str("X"), Date(20), Absent, Absent, Absent),
                      JsonObject(Str("b"), Absent, Str("soon"), Num(-4), Num(155),
                                 Absent)>>))}

\* The strategy buttons the user clicks.
ClickedStrategies == {"smart_balance", "deadline_driven"}

Init ==
    /\ tasks = <<>>
    /\ analyzedTasks = <<>>
    /\ sortStrategy = "smart_balance"
    /\ loading = FALSE
    /\ timers = <<>>
    /\ now = 0
    /\ alert = NoAlert

Next ==
    \/ \E form \in FormInputs : AddTask(form)
    \/ \E payload \in Payloads : HandleBulkImport(payload)
    \/ ClearAll
    \/ \E strategy \in ClickedStrategies : SetSortStrategy(strategy)
    \/ AnalyzeTasks
    \/ AnalyzeCallback
    \/ Tick

Spec == Init /\ [][Next]_vars

-----------------------------------------------------------------------------
(* The engine alone: analyzeTasks over working sets ingestion can produce *)

Task(id, due_date, estimated_hours, importance, dependencies) ==
    [id |-> id, title |-> "T", due_date |-> due_date,
     estimated_hours |-> estimated_hours, importance |-> importance,
     dependencies |-> dependencies]

\* The task under study.
EngineTasks ==
    {Task("a", Date(day), h, i, deps) :
        day \in {0, 20}, h \in {2, 24}, i \in {5, 10},
        deps \in {<<>>, <<"a">>, <<"b", "b">>}}

\* The other tasks of the working set: they differ in their ids alone, so
\* they tie with each other.
ContextTasks == {Task(id, Date(1), 4, 5, <<>>) : id \in {"a", "b"}}

ContextLists == UNION {[1..n -> ContextTasks] : n \in 0..MaxContext}

EngineTaskLists == {<<t>> \o c : t \in EngineTasks, c \in ContextLists}

InitEngine ==
    /\ tasks \in EngineTaskLists
    /\ analyzedTasks = <<>>
    /\ sortStrategy \in Strategies
    /\ loading = FALSE
    /\ timers = <<>>
    /\ now = 0
    /\ alert = NoAlert

NextEngine ==
    \/ AnalyzeTasks
    \/ AnalyzeCallback
    \/ Tick
    \/ ClearAll

SpecEngine == InitEngine /\ [][NextEngine]_vars

-----------------------------------------------------------------------------
(* The urgency component alone: one task, due on any day around the clock *)

\* The due dates drawn: from MaxOverdueDays days before day 0 to MaxDueDays
\* days after it, and a text that is no date. With the clock at 0 or later
\* daysUntilDue takes every multiple of a tick between them.
UrgencyDueDates ==
    {Date(day) : day \in (0 - MaxOverdueDays)..MaxDueDays} \cup {Str("soon")}

UrgencyTaskLists == {<<Task("a", due, 2, 5, <<>>)>> : due \in UrgencyDueDates}

InitUrgency ==
    /\ tasks \in UrgencyTaskLists
    /\ analyzedTasks = <<>>
    /\ sortStrategy \in Strategies
    /\ loading = FALSE
    /\ timers = <<>>
    /\ now = 0
    /\ alert = NoAlert

SpecUrgency == InitUrgency /\ [][NextEngine]_vars

-----------------------------------------------------------------------------
(* Claims about the engine, checked under SpecEngine *)

\* The level the spec's invariant gives a one-decimal score (in tenths).
LevelOfScore(score) ==
    IF score >= 70 THEN "high" ELSE IF score >= 40 THEN "medium" ELSE "low"

\* C1: every analyzed task's level is the one its own returned one-decimal
\* score determines: high iff score >= 7, medium iff 4 <= score < 7, low iff
\* score < 4.
C1_LevelFollowsScore ==
    \A i \in DOMAIN analyzedTasks :
        analyzedTasks[i].priority.level = LevelOfScore(analyzedTasks[i].priority.score)

\* The result on display was computed from the tasks and the strategy the
\* pending callback closes over.
ResultOfSameInput ==
    /\ Len(analyzedTasks) = Len(Head(timers).tasks)
    /\ \E p \in Permutations(DOMAIN analyzedTasks) :
          \A i \in DOMAIN analyzedTasks :
              TaskOf(analyzedTasks[i]) = Head(timers).tasks[p[i]]
    /\ \A i \in DOMAIN analyzedTasks :
          analyzedTasks[i].priority.explanation = Explanation(Head(timers).sortStrategy)

\* C4: analysis is idempotent: a run over the tasks and the strategy an
\* earlier run had yields the list that run yielded (its order and every
\* task's score, level and breakdown), whatever time has passed between the
\* runs or between the scoring of two tasks.
C4_AnalysisIdempotent ==
    [][(AnalyzeCallback /\ analyzedTasks # <<>> /\ ResultOfSameInput)
        => analyzedTasks' = analyzedTasks]_vars

\* A step in which the oldest pending callback ran: no other step takes a
\* callback off the pending ones.
CallbackRan == timers # <<>> /\ timers' = Tail(timers)

\* The permutations of 1..n, for every length a working set of SpecEngine
\* has.
PermutationsOfLength == [n \in 0..(1 + MaxContext) |-> Permutations(1..n)]

\* out is input ranked: one entry per task of input, scores non-increasing,
\* equal scores in input's order; and the digest is its first min(3, n)
\* entries.
RankedFrom(input, out) ==
    /\ Len(out) = Len(input)
    /\ \A i, j \in DOMAIN out :
          i < j => out[i].priority.score >= out[j].priority.score
    /\ \E p \in PermutationsOfLength[Len(input)] :
          /\ \A i \in DOMAIN out : TaskOf(out[i]) = input[p[i]]
          /\ \A i, j \in DOMAIN out :
                (i < j /\ out[i].priority.score = out[j].priority.score)
                  => p[i] < p[j]
    /\ Len(Top3(out)) = Min(3, Len(input))
    /\ \A i \in DOMAIN Top3(out) : Top3(out)[i] = out[i]

\* C5: the list an analysis delivers is a permutation of the working set
\* captured when it was requested, ordered by score non-increasing, tasks of
\* equal score in the working set's order; the top-3 digest is its first
\* min(3, n) entries.
C5_RankedStablePermutation ==
    [][CallbackRan => RankedFrom(Head(timers).tasks, analyzedTasks')]_vars

\* C5's case: four tasks were ranked, the first of the working set came
\* out last, and two of the others tie.
C5_Witness ==
    /\ Len(analyzedTasks) = 4
    /\ Len(tasks) = 4
    /\ TaskOf(analyzedTasks[4]) = tasks[1]
    /\ analyzedTasks[3].priority.score > analyzedTasks[4].priority.score
    /\ analyzedTasks[1].priority.score = analyzedTasks[2].priority.score
    /\ analyzedTasks[1].id # analyzedTasks[2].id

\* The weights of the spec's table (urgency, importance, effort,
\* dependencies), in hundredths.
SpecWeights(strategy) ==
    CASE strategy = "smart_balance" -> <<35, 35, 15, 15>>
      [] strategy = "fastest_wins" -> <<20, 20, 60, 0>>
      [] strategy = "high_impact" -> <<20, 70, 10, 0>>
      [] strategy = "deadline_driven" -> <<70, 20, 10, 0>>

\* score (in tenths) is sum (in ten-thousandths) rounded to one decimal; a
\* sum halfway between two tenths may be rounded either way.
RoundedToTenth(score, sum) ==
    /\ sum - 500 <= score * 1000
    /\ score * 1000 <= sum + 500

\* The working set an analyzed list was computed from, up to its order.
AnalyzedSet == [j \in DOMAIN analyzedTasks |-> TaskOf(analyzedTasks[j])]

WithoutDependencies(task) == [task EXCEPT !.dependencies = <<>>]

\* C6: every score is the weighted sum of the four components rounded to one
\* decimal, with the weights of the spec's table for the strategy; and under
\* the three strategies other than smart_balance a task's score and level
\* are those it gets with no dependencies and no other task in the set.
C6_WeightedScore ==
    \A i \in DOMAIN analyzedTasks :
        \E t \in 0..now :
            LET a == analyzedTasks[i]
                w == SpecWeights(sortStrategy)
                sum == w[1] * UrgencyScore(a, t) + w[2] * ImportanceScore(a)
                       + w[3] * EffortScore(a) + w[4] * DependencyScore(a, AnalyzedSet)
                alone == calculatePriority(WithoutDependencies(TaskOf(a)),
                                           <<WithoutDependencies(TaskOf(a))>>,
                                           sortStrategy, t)
            IN  /\ RoundedToTenth(a.priority.score, sum)
                /\ a.priority.breakdown.urgency = Round1(UrgencyScore(a, t), 100)
                /\ sortStrategy # "smart_balance" =>
                      /\ a.priority.score = alone.score
                      /\ a.priority.level = alone.level

\* C6's case: under a strategy other than smart_balance, a task with a
\* prerequisite in the set was scored, and so was an overdue task.
C6_Witness ==
    /\ sortStrategy # "smart_balance"
    /\ \E i, j \in DOMAIN analyzedTasks :
          /\ i # j
          /\ Includes(analyzedTasks[i].dependencies, analyzedTasks[j].id)
          /\ analyzedTasks[i].priority.breakdown.dependencies > 0
    /\ \E i \in DOMAIN analyzedTasks :
          analyzedTasks[i].priority.breakdown.urgency > 100

\* C10: every task's dependency component is 2 times the number of tasks of
\* the set, other than the task itself, whose id is among its dependencies.
C10_DependencyCountsOthers ==
    \A i \in DOMAIN analyzedTasks :
        analyzedTasks[i].priority.breakdown.dependencies
          = 10 * 2 * Cardinality({j \in DOMAIN analyzedTasks \ {i} :
                Includes(analyzedTasks[i].dependencies, analyzedTasks[j].id)})

\* C9: analyze requested on an empty working set raises the EmptyInputError
\* alert and changes nothing else: loading stays as it is, no callback is
\* scheduled, and the working set, the strategy and the analyzed result are
\* unchanged.
C9_EmptyAnalyzeNoEffect ==
    [][/\ (AnalyzeTasks /\ Len(tasks) = 0) => alert' = AddTasksFirstMsg
       /\ alert' = AddTasksFirstMsg
            => /\ Len(tasks) = 0
               /\ loading' = loading
               /\ timers' = timers
               /\ tasks' = tasks
               /\ sortStrategy' = sortStrategy
               /\ analyzedTasks' = analyzedTasks]_vars

\* C9's case: analyze was refused on the empty working set while an earlier
\* analyzed result was on display, and the result is still there.
C9_Witness ==
    /\ alert = AddTasksFirstMsg
    /\ tasks = <<>>
    /\ analyzedTasks # <<>>
    /\ loading = FALSE
    /\ timers = <<>>

-----------------------------------------------------------------------------
(* Claims about the component, checked under Spec *)

\* C2: an analyzed result that is present is the analysis of the current
\* working set under the selected strategy (at some reading of the clock up
\* to now): no result of an earlier working set or strategy is present.
C2_ResultIsCurrent ==
    analyzedTasks # <<>> =>
        \E clk \in [DOMAIN tasks -> 0..now] :
            analyzedTasks = Analyze(tasks, sortStrategy, clk)

\* C3: immediately after clearAll the working set and the computed analysis
\* are both empty.
C3_ClearAllEmptiesBoth ==
    [][ClearAll => (tasks' = <<>> /\ analyzedTasks' = <<>>)]_vars

\* The payload decodes to a task-like object or a list of task-like objects.
TaskLike(payload) ==
    /\ payload.k = "json"
    /\ \/ payload.v.t = "obj"
       \/ /\ payload.v.t = "arr"
          /\ \A i \in DOMAIN payload.v.items : payload.v.items[i].t = "obj"

\* C7: a bulkImport of a payload that is not a task-like object or a list of
\* them fails with the ParseError alert and leaves the working set as it was.
C7_UnparseableLeavesTasks ==
    [][\A payload \in Payloads :
          (HandleBulkImport(payload) /\ ~TaskLike(payload))
            => (alert' = InvalidJsonMsg /\ tasks' = tasks)]_vars

\* C8: every task of the working set has an integer importance in 1..10 and
\* a positive estimated_hours (not zero, not negative, not NaN).
C8_TasksWellFormed ==
    \A i \in DOMAIN tasks :
        /\ tasks[i].importance \in 1..10
        /\ tasks[i].estimated_hours # NaN
        /\ tasks[i].estimated_hours > 0

-----------------------------------------------------------------------------
(* Claims about the urgency component, checked under SpecUrgency *)

\* The reference step function of daysUntilDue, in hundredths. d is counted
\* in ticks; the buckets are given by their inclusive upper ends, in days.
UrgencyBuckets == <<[upTo |-> 1, value |-> 900], [upTo |-> 3, value |-> 700],
                    [upTo |-> 7, value |-> 500], [upTo |-> 14, value |-> 300]>>

ReferenceUrgency(d) ==
    IF d < 0 THEN 1000 + (50 * (0 - d)) \div TicksPerDay
    ELSE LET fits == {k \in DOMAIN UrgencyBuckets :
                        d <= UrgencyBuckets[k].upTo * TicksPerDay}
         IN  IF fits = {} THEN 100
             ELSE UrgencyBuckets[CHOOSE k \in fits : \A m \in fits : k <= m].value

\* daysUntilDue of every due date drawn, at every reading of the clock.
DaysUntilDueDrawn ==
    {DateGetTime(due) - t : due \in UrgencyDueDates \ {Str("soon")},
                            t \in 0..(MaxNow + 1)}

\* C11: for every daysUntilDue that is a number, the urgency component of
\* calculatePriority is the reference step function of it, and the urgency
\* the analysis delivers is that value rounded to one decimal; at exactly 0,
\* 1, 3, 7 and 14 days it is 9, 9, 7, 5 and 3, one tick above each of these
\* it is the value of the next bucket, and when overdue it grows strictly
\* with the lateness, to 15 at 10 days overdue.
C11_UrgencyStepFunction ==
    [][CallbackRan =>
        LET task == Head(timers).tasks[1]
            d == DateGetTime(task.due_date) - now'
            u == UrgencyScore(task, now')
        IN  DateGetTime(task.due_date) # NaN =>
              /\ u = ReferenceUrgency(d)
              /\ analyzedTasks'[1].priority.breakdown.urgency = Round1(u, 100)
              /\ d = 0 => u = 900
              /\ \A k \in DOMAIN UrgencyBuckets :
                    /\ d = UrgencyBuckets[k].upTo * TicksPerDay
                         => u = UrgencyBuckets[k].value
                    /\ d = UrgencyBuckets[k].upTo * TicksPerDay + 1
                         => u = IF k < Len(UrgencyBuckets)
                                  THEN UrgencyBuckets[k + 1].value ELSE 100
              /\ d = 0 - 10 * TicksPerDay => u = 1500
              /\ \A e \in DaysUntilDueDrawn :
                    (e < d /\ d < 0)
                      => UrgencyScore(task, now' + (d - e)) > u]_vars

\* C11's case: a task 10 days overdue was analysed and urgency 15 delivered.
C11_Witness ==
    /\ analyzedTasks # <<>>
    /\ analyzedTasks[1].due_date = Date(0 - 10)
    /\ now = 0
    /\ analyzedTasks[1].priority.breakdown.urgency = 150

====
